---------------------------- MODULE Spec2Model ----------------------------
(***************************************************************************)
(* Model of github-scraper: the bounded worker pool of scraper.Run and the *)
(* retry/backoff loops of the services package (the GitHub gateway).       *)
(*                                                                         *)
(* Two state machines share this module.  Spec is scraper.Run with its     *)
(* dispatcher, workers, reporter and consumer; the remote calls a worker   *)
(* makes are steps whose outcome is drawn from the outcomes the gateway    *)
(* can return.  GwSpec is one gateway operation (a retry loop around one   *)
(* remote call, with pagination), driven by every sequence of remote       *)
(* outcomes.  Durations are in milliseconds.                               *)
(***************************************************************************)
EXTENDS Integers, Sequences, FiniteSets, TLC

(***************************************************************************)
(* Bounds of the model.                                                    *)
(***************************************************************************)
MaxPRs == 3
MaxConc == 2
\* remote calls one gateway operation may issue in the model
MaxCalls == 8
\* items per page the remote serves in the model
PageSize == 1

VARIABLES
    \* ---- scraper.Run ----
    runPc,           \* position of Run: "list","bulk","start","consume","addIns","returned"
    runRet,          \* value Run returned: "none","nil","listErr","ctxErr"
    cancelled,       \* ctx.Done() is closed
    concurrency,     \* the concurrency argument (clamped by Run's first statement)
    poolSet,         \* db.Pool != nil
    concArg,         \* the concurrency argument Run was called with
    nPRs,            \* the number of pull requests the remote repository holds
    runs,            \* which call of Run this is (1, or 2 when Run is called again)
    dbCall,          \* the latest InsertPRRow call made on its own: its row and its error
    total,           \* len(jobNumbers)
    liteMap,         \* number -> the lite record the listing returned for it
    repoBreakdowns,  \* the preloaded map: id -> breakdown (a function on a set of ids)
    bulkErr,         \* the bulk scan returned an error
    jobsClosed,      \* close(jobs) happened
    closeCount,      \* number of close(jobs) calls
    dispPc,          \* dispatcher: "off","run","done"
    dispIdx,         \* index into jobNumbers of the next job to send
    wpc,             \* worker position: "off","recv","lookup","lookupX","insert","send","done"
                     \* (lookupX: the per-item call was issued after the signal)
    wjob,            \* the job number a worker holds (0: none)
    wbd,             \* the breakdown a worker uses for its job
    wres,            \* the result a worker is about to send
    i,               \* the consumer's loop counter
    processed, inserted, errs,   \* the three atomic counters
    doneClosed,      \* close(done) happened
    repPc,           \* reporter: "off","wait","gotP","gotI","logged","done"
    snap,            \* the reporter's locals p, i, e of the tick it is handling
    repSaw,          \* the reporter's select has taken ctx.Done() or done
    store,           \* the prs table: key -> row
    \* ---- history (observations, never read by the program) ----
    got,             \* id -> number of results the consumer received for id
    upserts,         \* id -> number of InsertPRRow calls issued
    lookups,         \* id -> number of GetPRCommentsBreakdown calls issued
    callErr,         \* id -> the call of the job that returned an error: "none","lookup","insert"
    recvd,           \* id -> number of times a worker received the job from the queue
    lateUpsert,      \* an InsertPRRow call started after the cancellation signal
    cancelPending,   \* the signal fired while Run was consuming and a result was still unread
    \* ---- one gateway operation (services package) ----
    gop,             \* the operation: "none" or one of GwOps
    gnum,            \* its number argument (per-item operations)
    fx,              \* which comment fixture the remote serves
    clientSet,       \* the client the operation uses is not nil (GitHubClient, or
                     \* GitHubGraphQLClient for the GraphQL listing); for Run, GitHubClient
    gwPc,            \* "idle","call","wait","ret"
    gwCancelled,     \* the operation's ctx.Done() is closed
    phase,           \* 1: conversation (issue) comments, 2: diff-review comments
    page,            \* the page the next request asks for
    attempt,         \* the bulk scan's attempt counter for the current request
    lastAtt,         \* the attempt counter's value at the latest remote call
    sleepFor,        \* the duration of the wait the operation is in
    lastErr,         \* the error of the latest remote call (NoErr after a success)
    calls,           \* remote calls issued so far
    samePage,        \* consecutive calls issued for the current page
    breakdown,       \* GetPRCommentsBreakdown's accumulator
    breakdowns,      \* GetRepoCommentsBreakdown's map
    allPRs,          \* GetAllPRs' accumulated list
    gwRet            \* what the operation returned: [err, bd]

runVars == <<runPc, runRet, cancelled, concurrency, poolSet, concArg, nPRs, runs, dbCall, total, liteMap, repoBreakdowns,
             bulkErr, jobsClosed, closeCount, dispPc, dispIdx, wpc, wjob, wbd, wres,
             i, processed, inserted, errs, doneClosed, repPc, snap, repSaw, store, got, upserts, lookups, recvd, callErr, lateUpsert, cancelPending>>

gwVars == <<gop, gnum, fx, clientSet, gwPc, gwCancelled, phase, page, attempt, lastAtt, sleepFor, lastErr, calls,
            samePage, breakdown, breakdowns, allPRs, gwRet>>

vars == <<runVars, gwVars>>

(***************************************************************************)
(* The remote fixture: the repository's pull requests and their comments.  *)
(***************************************************************************)
Ids == 1..MaxPRs
WorkerIds == 1..MaxConc
Owner == "o"
Repo == "r"

\* PRLite fields of pull request id (services.PRLite)
Additions(id) == IF id = 1 THEN 10 ELSE IF id = 2 THEN 0 ELSE 5
Deletions(id) == IF id = 1 THEN 2 ELSE IF id = 2 THEN 0 ELSE 5
CreatedAt(id) == 100 + id

\* a comment as the remote serves it.  pr: the pull request (or issue) it belongs
\* to, which the per-item endpoints filter on; author: "nil" (no user), "notype"
\* (user without a type), "User" or "Bot"; ref: the number ending IssueURL /
\* PullRequestURL, html: the number ending HTMLURL (0: the URL is absent, -1: its
\* last segment is not a number)
Comment(n, a) == [pr |-> n, author |-> a, ref |-> n, html |-> n]

\* the repository's comments: conversation (issue) comments and diff-review comments
IssueComments == << Comment(1, "Bot"), Comment(1, "User") >>
ReviewComments == << Comment(3, "User") >>

\* a second repository: a comment without author, a comment on an issue that is
\* no pull request, a bot, and a diff comment without PullRequestURL whose
\* author has no type
IssueComments2 ==
    << Comment(2, "nil"), Comment(MaxPRs + 1, "User"), Comment(1, "Bot") >>
ReviewComments2 ==
    << [pr |-> 2, author |-> "notype", ref |-> 0, html |-> 2] >>

\* a third repository: comments of both kinds that carry no reference URL
\* (issue_url, pull_request_url) but a display URL (html_url) ending in the number
IssueComments3 ==
    << Comment(2, "User"), [pr |-> 2, author |-> "User", ref |-> 0, html |-> 2],
       Comment(1, "User") >>
ReviewComments3 ==
    << [pr |-> 3, author |-> "Bot", ref |-> 0, html |-> 3], Comment(3, "User") >>

Fixtures == {1, 2, 3}
IssuesOf(f) == IF f = 1 THEN IssueComments ELSE IF f = 2 THEN IssueComments2 ELSE IssueComments3
ReviewsOf(f) ==
    IF f = 1 THEN ReviewComments ELSE IF f = 2 THEN ReviewComments2 ELSE ReviewComments3

\* isBot: u == nil || u.Type == nil gives false, else *u.Type == "Bot"
isBot(a) == IF a = "nil" \/ a = "notype" THEN FALSE ELSE a = "Bot"

\* the comments of l that belong to pull request n
PerPR(l, n) == LET Mine(c) == c.pr = n IN SelectSeq(l, Mine)
BotsOf(l) == LET IsBot(c) == isBot(c.author) IN SelectSeq(l, IsBot)

\* comments of pull request id in the fixture: total and bot-authored
FixTotal(id) == Len(PerPR(IssueComments, id)) + Len(PerPR(ReviewComments, id))
FixBot(id) == Len(BotsOf(PerPR(IssueComments, id))) + Len(BotsOf(PerPR(ReviewComments, id)))

ZeroBreakdown == [TotalComments |-> 0, BotComments |-> 0]
NoResult == [number |-> 0, inserted |-> FALSE, err |-> "nil"]
NoRow == [ID |-> 0, Repo |-> "", Owner |-> "", CommentCount |-> 0, BotComments |-> 0,
          LinesChanged |-> 0, CreatedAt |-> 0]

\* jobNumbers: the listing is newest first
JobNumber(n, k) == n + 1 - k

\* the clamp that lets a zero concurrency through
ClampZero(c) == IF c < 0 THEN 1 ELSE c

(***************************************************************************)
(* Pure helpers of scraper.Run and db.InsertPRRow.                         *)
(***************************************************************************)
\* if concurrency < 1 { concurrency = 1 }
Clamp(c) == IF c < 1 THEN 1 ELSE c

\* what GetPRCommentsBreakdown returns for id on success
FixtureBreakdown(id) == [TotalComments |-> FixTotal(id), BotComments |-> FixBot(id)]

\* what a successful GetRepoCommentsBreakdown returns for the wanted ids 1..n:
\* record() creates an entry only for an id that owns at least one comment
BulkMap(n) == [id \in {x \in 1..n : FixTotal(x) > 0} |-> FixtureBreakdown(id)]

EmptyMap == [id \in {} |-> ZeroBreakdown]

\* bd := breakdowns[prNumber] / bd, ok := repoBreakdowns[j]: the zero value for a
\* missing key
MapGet(m, id) == IF id \in DOMAIN m THEN m[id] ELSE ZeroBreakdown

\* the PRLite the listing returns for pull request id
LiteOf(id) ==
    [Number |-> id, Additions |-> Additions(id), Deletions |-> Deletions(id),
     CreatedAt |-> CreatedAt(id)]
\* lite := liteMap[j.number] for a number that is not a key
ZeroLite == [Number |-> 0, Additions |-> 0, Deletions |-> 0, CreatedAt |-> 0]

\* BuildRow taking the additions alone as the lines changed
BuildRowAdditionsOnly(id, bd) ==
    LET lite == IF id \in DOMAIN liteMap THEN liteMap[id] ELSE ZeroLite IN
    [ID |-> id, Repo |-> Repo, Owner |-> Owner,
     CommentCount |-> bd.TotalComments, BotComments |-> bd.BotComments,
     LinesChanged |-> lite.Additions, CreatedAt |-> lite.CreatedAt]

\* the row a worker builds for job id from liteMap[id] and the breakdown
BuildRow(id, bd) ==
    LET lite == IF id \in DOMAIN liteMap THEN liteMap[id] ELSE ZeroLite IN
    [ID |-> id, Repo |-> Repo, Owner |-> Owner,
     CommentCount |-> bd.TotalComments, BotComments |-> bd.BotComments,
     LinesChanged |-> lite.Additions + lite.Deletions, CreatedAt |-> lite.CreatedAt]

\* the key of the earlier schema: the pull request number alone
RowKeyIdOnly(row) == ToString(row.ID)

\* the key with a per-run serial appended
RowKeyPerRun(row) ==
    ToString(row.ID) \o ":" \o row.Owner \o ":" \o row.Repo \o ":" \o ToString(runs)

\* id := fmt.Sprintf("%d:%s:%s", row.ID, row.Owner, row.Repo)
RowKey(row) == ToString(row.ID) \o ":" \o row.Owner \o ":" \o row.Repo

\* the key of the run's row for pull request id
RunKey(id) == RowKey([ID |-> id, Owner |-> Owner, Repo |-> Repo])

\* INSERT ... ON CONFLICT (id) DO UPDATE SET ...
Upsert(s, row) ==
    [k \in (DOMAIN s) \cup {RowKey(row)} |-> IF k = RowKey(row) THEN row ELSE s[k]]

RECURSIVE SumTo(_, _)
SumTo(f, n) == IF n = 0 THEN 0 ELSE f[n] + SumTo(f, n - 1)
\* number of results the consumer has received
NumRead == SumTo(got, MaxPRs)

(***************************************************************************)
(* scraper.Run                                                             *)
(***************************************************************************)
\* the reporter's locals outside a tick
NoSnap == [p |-> 0, i |-> 0, e |-> 0]

RunLocals ==
    /\ runRet = "none" /\ cancelled = FALSE
    /\ concurrency \in -1..MaxConc
    /\ concArg = concurrency
    /\ poolSet \in BOOLEAN
    /\ nPRs \in 0..MaxPRs
    /\ runs = 1
    /\ liteMap = EmptyMap
    /\ dbCall = [row |-> NoRow, err |-> "none"]
    /\ total = 0
    /\ repoBreakdowns = EmptyMap /\ bulkErr = FALSE
    /\ jobsClosed = FALSE /\ closeCount = 0
    /\ dispPc = "off" /\ dispIdx = 1
    /\ wpc = [w \in WorkerIds |-> "off"]
    /\ wjob = [w \in WorkerIds |-> 0]
    /\ wbd = [w \in WorkerIds |-> ZeroBreakdown]
    /\ wres = [w \in WorkerIds |-> NoResult]
    /\ i = 0
    /\ processed = 0 /\ inserted = 0 /\ errs = 0
    /\ doneClosed = FALSE
    /\ repPc = "off" /\ snap = NoSnap /\ repSaw = FALSE
    /\ store = [k \in {} |-> 0]
    /\ got = [id \in Ids |-> 0]
    /\ upserts = [id \in Ids |-> 0]
    /\ lookups = [id \in Ids |-> 0]
    /\ recvd = [id \in Ids |-> 0]
    /\ callErr = [id \in Ids |-> "none"]
    /\ lateUpsert = FALSE
    /\ cancelPending = FALSE

\* Run is entered
RunInit == runPc = "list" /\ RunLocals

taskVars == <<jobsClosed, closeCount, dispPc, dispIdx, wpc, wjob, wbd, wres>>
consVars == <<i, processed, inserted, errs, doneClosed>>
repVars == <<repPc, snap, repSaw>>
histVars == <<got, upserts, lookups, recvd, callErr, lateUpsert>>
cfgVars == <<poolSet, concArg, nPRs, runs, dbCall>>
inVars == <<cfgVars, total, liteMap, repoBreakdowns, bulkErr>>

\* the external cancellation signal fires
Cancel ==
    /\ ~cancelled /\ runPc # "returned"
    /\ cancelled' = TRUE
    /\ cancelPending' = (runPc \in {"consume", "addIns"} /\ NumRead < total)
    /\ UNCHANGED gwVars
    /\ UNCHANGED <<runPc, runRet, concurrency, inVars, taskVars, consVars, repVars,
                   store, histVars>>

\* RunList logging the listing's error and going on to the bulk scan
RunListGoesOn ==
    /\ runPc = "list"
    /\ concurrency' = Clamp(concurrency)
    /\ \/ /\ runPc' = "bulk" /\ runRet' = "listErr" /\ total' = 0
          /\ liteMap' = liteMap
       \/ LET n == nPRs IN
            /\ ~cancelled
            /\ total' = n
            /\ liteMap' = [id \in 1..n |-> LiteOf(id)]
            /\ IF n = 0 THEN runPc' = "returned" /\ runRet' = "nil"
                        ELSE runPc' = "bulk" /\ runRet' = runRet
    /\ UNCHANGED gwVars
    /\ UNCHANGED <<cancelled, cfgVars, repoBreakdowns, bulkErr, taskVars, consVars,
                   repVars, store, histVars, cancelPending>>

\* RunList without the return for an empty listing
RunListNoEarlyReturn ==
    /\ runPc = "list"
    /\ concurrency' = Clamp(concurrency)
    /\ \/ /\ runPc' = "returned" /\ runRet' = "listErr" /\ total' = 0
          /\ liteMap' = liteMap
       \/ LET n == nPRs IN
            /\ ~cancelled
            /\ total' = n
            /\ liteMap' = [id \in 1..n |-> LiteOf(id)]
            /\ runPc' = "bulk" /\ runRet' = runRet
    /\ UNCHANGED gwVars
    /\ UNCHANGED <<cancelled, cfgVars, repoBreakdowns, bulkErr, taskVars, consVars,
                   repVars, store, histVars, cancelPending>>

\* lines 27-47: clamp, bulk listing, early returns.  A remote call issued with a
\* context that is already cancelled fails.
RunList ==
    /\ runPc = "list"
    /\ concurrency' = Clamp(concurrency)
    /\ \/ /\ runPc' = "returned" /\ runRet' = "listErr" /\ total' = 0
          /\ liteMap' = liteMap
       \/ LET n == nPRs IN
            /\ ~cancelled
            /\ total' = n
            /\ liteMap' = [id \in 1..n |-> LiteOf(id)]
            /\ IF n = 0 THEN runPc' = "returned" /\ runRet' = "nil"
                        ELSE runPc' = "bulk" /\ runRet' = runRet
    /\ UNCHANGED gwVars
    /\ UNCHANGED <<cancelled, cfgVars, repoBreakdowns, bulkErr, taskVars, consVars,
                   repVars, store, histVars, cancelPending>>

\* RunBulk returning the bulk scan's error
RunBulkAbort ==
    /\ runPc = "bulk"
    /\ \/ /\ bulkErr' = TRUE /\ repoBreakdowns' = EmptyMap
          /\ runPc' = "returned" /\ runRet' = "bulkErr"
       \/ /\ ~cancelled /\ clientSet /\ bulkErr' = FALSE /\ repoBreakdowns' = BulkMap(total)
          /\ runPc' = "start" /\ runRet' = runRet
    /\ UNCHANGED gwVars
    /\ UNCHANGED <<cancelled, concurrency, cfgVars, total, liteMap, taskVars, consVars,
                   repVars, store, histVars, cancelPending>>

\* lines 55-63: preload the bulk breakdown map; an error is only a warning
RunBulk ==
    /\ runPc = "bulk"
    /\ \/ bulkErr' = TRUE /\ repoBreakdowns' = EmptyMap
       \/ ~cancelled /\ clientSet /\ bulkErr' = FALSE /\ repoBreakdowns' = BulkMap(total)
    /\ runPc' = "start"
    /\ UNCHANGED gwVars
    /\ UNCHANGED <<runRet, cancelled, concurrency, cfgVars, total, liteMap, taskVars, consVars,
                   repVars, store, histVars, cancelPending>>

\* lines 65-156: the go statements (workers, dispatcher, reporter)
RunStart ==
    /\ runPc = "start"
    /\ wpc' = [w \in WorkerIds |-> IF w <= concurrency THEN "recv" ELSE "off"]
    /\ dispPc' = "run"
    /\ repPc' = "wait"
    /\ runPc' = "consume"
    /\ UNCHANGED gwVars
    /\ UNCHANGED <<runRet, cancelled, concurrency, inVars, jobsClosed, closeCount,
                   dispIdx, wjob, wbd, wres, consVars, snap, repSaw, store,
                   histVars, cancelPending>>

\* Proceed that reports a row as inserted although no pool is configured
ProceedInsertedNoPool(w, j, bd) ==
    IF poolSet
    THEN /\ wpc' = [wpc EXCEPT ![w] = "insert"]
         /\ wbd' = [wbd EXCEPT ![w] = bd]
         /\ upserts' = [upserts EXCEPT ![j] = @ + 1]
         /\ lateUpsert' = (lateUpsert \/ cancelled)
         /\ wres' = wres
    ELSE /\ wpc' = [wpc EXCEPT ![w] = "send"]
         /\ wbd' = [wbd EXCEPT ![w] = bd]
         /\ wres' = [wres EXCEPT ![w] =
                        [number |-> j, inserted |-> TRUE, err |-> "nil"]]
         /\ UNCHANGED <<upserts, lateUpsert>>

\* lines 82-108 up to the InsertPRRow call, for worker w holding job j: build the
\* row, then either issue the upsert (db.Pool != nil) or prepare the success result
Proceed(w, j, bd) ==
    IF poolSet
    THEN /\ wpc' = [wpc EXCEPT ![w] = "insert"]
         /\ wbd' = [wbd EXCEPT ![w] = bd]
         /\ upserts' = [upserts EXCEPT ![j] = @ + 1]
         /\ lateUpsert' = (lateUpsert \/ cancelled)
         /\ wres' = wres
    ELSE /\ wpc' = [wpc EXCEPT ![w] = "send"]
         /\ wbd' = [wbd EXCEPT ![w] = bd]
         /\ wres' = [wres EXCEPT ![w] =
                        [number |-> j, inserted |-> FALSE, err |-> "nil"]]
         /\ UNCHANGED <<upserts, lateUpsert>>

\* WorkerLookup reading the map without the ok test
WorkerLookupZeroValue(w, j) ==
    Proceed(w, j, MapGet(repoBreakdowns, j)) /\ UNCHANGED lookups

\* lines 72-75, for worker w holding job j: consult the preloaded map, else issue
\* the per-item call
WorkerLookup(w, j) ==
    IF j \in DOMAIN repoBreakdowns
    THEN Proceed(w, j, repoBreakdowns[j]) /\ UNCHANGED lookups
    ELSE /\ wpc' = [wpc EXCEPT ![w] = IF cancelled THEN "lookupX" ELSE "lookup"]
         /\ lookups' = [lookups EXCEPT ![j] = @ + 1]
         /\ UNCHANGED <<wbd, wres, upserts, lateUpsert>>

\* the range loop that sends the same job again
NextJobStuck(k) == k

\* line 114: for _, num := range jobNumbers, the index of the job sent after job k
NextJob(k) == k + 1

\* line 120 with line 68: the dispatcher's send meets worker w's receive, and the
\* worker goes on to its first call (lines 72-101)
DispatchSend(w) ==
    /\ dispPc = "run" /\ dispIdx <= total /\ ~jobsClosed
    /\ wpc[w] = "recv"
    /\ wjob' = [wjob EXCEPT ![w] = JobNumber(total, dispIdx)]
    /\ recvd' = [recvd EXCEPT ![JobNumber(total, dispIdx)] = @ + 1]
    /\ WorkerLookup(w, JobNumber(total, dispIdx))
    /\ dispIdx' = NextJob(dispIdx)
    /\ callErr' = callErr
    /\ UNCHANGED gwVars
    /\ UNCHANGED <<runPc, runRet, cancelled, concurrency, inVars, jobsClosed, closeCount,
                   dispPc, consVars, repVars, store, got, cancelPending>>

\* DispatchCancel that closes the queue and stays in the loop
DispatchCancelGoesOn ==
    /\ dispPc = "run" /\ dispIdx <= total /\ cancelled
    /\ jobsClosed' = TRUE /\ closeCount' = closeCount + 1
    /\ dispPc' = "run" /\ dispIdx' = total + 1
    /\ UNCHANGED gwVars
    /\ UNCHANGED <<runPc, runRet, cancelled, concurrency, inVars, wpc, wjob,
                   wbd, wres, consVars, repVars, store, histVars, cancelPending>>

\* lines 117-119: the dispatcher's select takes the ctx.Done() branch
DispatchCancel ==
    /\ dispPc = "run" /\ dispIdx <= total /\ cancelled
    /\ jobsClosed' = TRUE /\ closeCount' = closeCount + 1
    /\ dispPc' = "done"
    /\ UNCHANGED gwVars
    /\ UNCHANGED <<runPc, runRet, cancelled, concurrency, inVars, dispIdx, wpc, wjob,
                   wbd, wres, consVars, repVars, store, histVars, cancelPending>>

\* line 123: all jobs sent
DispatchClose ==
    /\ dispPc = "run" /\ dispIdx > total
    /\ jobsClosed' = TRUE /\ closeCount' = closeCount + 1
    /\ dispPc' = "done"
    /\ UNCHANGED gwVars
    /\ UNCHANGED <<runPc, runRet, cancelled, concurrency, inVars, dispIdx, wpc, wjob,
                   wbd, wres, consVars, repVars, store, histVars, cancelPending>>

\* line 68: range over the closed job queue ends
WorkerExit(w) ==
    /\ wpc[w] = "recv" /\ jobsClosed
    /\ wpc' = [wpc EXCEPT ![w] = "done"]
    /\ UNCHANGED gwVars
    /\ UNCHANGED <<runPc, runRet, cancelled, concurrency, inVars, jobsClosed, closeCount,
                   dispPc, dispIdx, wjob, wbd, wres, consVars, repVars, store, histVars,
                   cancelPending>>

\* WorkerLookupReturn storing the per-item breakdown in the preloaded map
WorkerLookupReturnCaching(w) ==
    /\ wpc[w] \in {"lookup", "lookupX"}
    /\ UNCHANGED <<lookups, recvd>>
    /\ \/ /\ wpc[w] = "lookup" /\ clientSet
          /\ Proceed(w, wjob[w], FixtureBreakdown(wjob[w]))
          /\ callErr' = callErr
          /\ repoBreakdowns' =
                [k \in (DOMAIN repoBreakdowns) \cup {wjob[w]} |->
                    IF k = wjob[w] THEN FixtureBreakdown(k) ELSE repoBreakdowns[k]]
       \/ /\ wres' = [wres EXCEPT ![w] =
                        [number |-> wjob[w], inserted |-> FALSE, err |-> "lookupErr"]]
          /\ callErr' = [callErr EXCEPT ![wjob[w]] = "lookup"]
          /\ wpc' = [wpc EXCEPT ![w] = "send"]
          /\ UNCHANGED <<wbd, upserts, lateUpsert, repoBreakdowns>>
    /\ UNCHANGED gwVars
    /\ UNCHANGED <<runPc, runRet, cancelled, concurrency, cfgVars, total, liteMap, bulkErr,
                   jobsClosed, closeCount,
                   dispPc, dispIdx, wjob, consVars, repVars, store, got, cancelPending>>

\* lines 75-79: GetPRCommentsBreakdown returns; it fails when it was called with
\* the context already cancelled or without a client
WorkerLookupReturn(w) ==
    /\ wpc[w] \in {"lookup", "lookupX"}
    /\ UNCHANGED <<lookups, recvd>>
    /\ \/ /\ wpc[w] = "lookup" /\ clientSet
          /\ Proceed(w, wjob[w], FixtureBreakdown(wjob[w]))
          /\ callErr' = callErr
       \/ /\ wres' = [wres EXCEPT ![w] =
                        [number |-> wjob[w], inserted |-> FALSE, err |-> "lookupErr"]]
          /\ callErr' = [callErr EXCEPT ![wjob[w]] = "lookup"]
          /\ wpc' = [wpc EXCEPT ![w] = "send"]
          /\ UNCHANGED <<wbd, upserts, lateUpsert>>
    /\ UNCHANGED gwVars
    /\ UNCHANGED <<runPc, runRet, cancelled, concurrency, inVars, jobsClosed, closeCount,
                   dispPc, dispIdx, wjob, consVars, repVars, store, got, cancelPending>>

\* WorkerInsertReturn sending a success result although InsertPRRow failed
WorkerInsertReturnSwallow(w) ==
    /\ wpc[w] = "insert"
    /\ \/ /\ store' = Upsert(store, BuildRow(wjob[w], wbd[w]))
          /\ wres' = [wres EXCEPT ![w] =
                        [number |-> wjob[w], inserted |-> TRUE, err |-> "nil"]]
          /\ callErr' = callErr
       \/ /\ store' = store
          /\ wres' = [wres EXCEPT ![w] =
                        [number |-> wjob[w], inserted |-> FALSE, err |-> "nil"]]
          /\ callErr' = [callErr EXCEPT ![wjob[w]] = "insert"]
    /\ wpc' = [wpc EXCEPT ![w] = "send"]
    /\ UNCHANGED gwVars
    /\ UNCHANGED <<runPc, runRet, cancelled, concurrency, inVars, jobsClosed, closeCount,
                   dispPc, dispIdx, wjob, wbd, consVars, repVars, got, upserts, lookups,
                   recvd, lateUpsert, cancelPending>>

\* WorkerInsertReturn that never sets ins = true
WorkerInsertReturnUnflagged(w) ==
    /\ wpc[w] = "insert"
    /\ \/ /\ store' = Upsert(store, BuildRow(wjob[w], wbd[w]))
          /\ wres' = [wres EXCEPT ![w] =
                        [number |-> wjob[w], inserted |-> FALSE, err |-> "nil"]]
          /\ callErr' = callErr
       \/ /\ store' = store
          /\ wres' = [wres EXCEPT ![w] =
                        [number |-> wjob[w], inserted |-> FALSE, err |-> "insertErr"]]
          /\ callErr' = [callErr EXCEPT ![wjob[w]] = "insert"]
    /\ wpc' = [wpc EXCEPT ![w] = "send"]
    /\ UNCHANGED gwVars
    /\ UNCHANGED <<runPc, runRet, cancelled, concurrency, inVars, jobsClosed, closeCount,
                   dispPc, dispIdx, wjob, wbd, consVars, repVars, got, upserts, lookups,
                   recvd, lateUpsert, cancelPending>>

\* lines 101-106: db.InsertPRRow returns
WorkerInsertReturn(w) ==
    /\ wpc[w] = "insert"
    /\ \/ /\ store' = Upsert(store, BuildRow(wjob[w], wbd[w]))
          /\ wres' = [wres EXCEPT ![w] =
                        [number |-> wjob[w], inserted |-> TRUE, err |-> "nil"]]
          /\ callErr' = callErr
       \/ /\ store' = store
          /\ wres' = [wres EXCEPT ![w] =
                        [number |-> wjob[w], inserted |-> FALSE, err |-> "insertErr"]]
          /\ callErr' = [callErr EXCEPT ![wjob[w]] = "insert"]
    /\ wpc' = [wpc EXCEPT ![w] = "send"]
    /\ UNCHANGED gwVars
    /\ UNCHANGED <<runPc, runRet, cancelled, concurrency, inVars, jobsClosed, closeCount,
                   dispPc, dispIdx, wjob, wbd, consVars, repVars, got, upserts, lookups,
                   recvd, lateUpsert, cancelPending>>

\* ConsumeResult returning the job's error instead of counting it
ConsumeResultAbort(w) ==
    /\ runPc = "consume" /\ i < total
    /\ wpc[w] = "send"
    /\ wpc' = [wpc EXCEPT ![w] = "recv"]
    /\ wjob' = [wjob EXCEPT ![w] = 0]
    /\ wres' = [wres EXCEPT ![w] = NoResult]
    /\ wbd' = [wbd EXCEPT ![w] = ZeroBreakdown]
    /\ got' = [got EXCEPT ![wres[w].number] = @ + 1]
    /\ IF wres[w].err # "nil"
       THEN /\ errs' = errs + 1 /\ i' = i
            /\ runPc' = "returned" /\ runRet' = "jobErr" /\ doneClosed' = TRUE
            /\ UNCHANGED processed
       ELSE /\ processed' = processed + 1
            /\ errs' = errs
            /\ UNCHANGED <<runRet, doneClosed>>
            /\ IF wres[w].inserted
               THEN runPc' = "addIns" /\ i' = i
               ELSE runPc' = runPc /\ i' = i + 1
    /\ UNCHANGED gwVars
    /\ UNCHANGED <<cancelled, concurrency, inVars, jobsClosed, closeCount,
                   dispPc, dispIdx, inserted, repVars, store, upserts, lookups, recvd, callErr,
                   lateUpsert, cancelPending>>

\* lines 164-173 with lines 77/102/108: worker w's send meets the consumer's
\* receive; the consumer counts the result
ConsumeResult(w) ==
    /\ runPc = "consume" /\ i < total
    /\ wpc[w] = "send"
    /\ wpc' = [wpc EXCEPT ![w] = "recv"]
    /\ wjob' = [wjob EXCEPT ![w] = 0]
    /\ wres' = [wres EXCEPT ![w] = NoResult]
    /\ wbd' = [wbd EXCEPT ![w] = ZeroBreakdown]
    /\ got' = [got EXCEPT ![wres[w].number] = @ + 1]
    /\ IF wres[w].err # "nil"
       THEN /\ errs' = errs + 1 /\ i' = i + 1
            /\ UNCHANGED <<processed, runPc>>
       ELSE /\ processed' = processed + 1
            /\ errs' = errs
            /\ IF wres[w].inserted
               THEN runPc' = "addIns" /\ i' = i
               ELSE runPc' = runPc /\ i' = i + 1
    /\ UNCHANGED gwVars
    /\ UNCHANGED <<runRet, cancelled, concurrency, inVars, jobsClosed, closeCount,
                   dispPc, dispIdx, inserted, doneClosed, repVars, store, upserts, lookups, recvd, callErr,
                   lateUpsert, cancelPending>>

\* RunAddInserted counting an inserted result as processed once more
RunAddInsertedTwice ==
    /\ runPc = "addIns"
    /\ inserted' = inserted + 1
    /\ processed' = processed + 1
    /\ i' = i + 1
    /\ runPc' = "consume"
    /\ UNCHANGED gwVars
    /\ UNCHANGED <<runRet, cancelled, concurrency, inVars, taskVars, errs,
                   doneClosed, repVars, store, histVars, cancelPending>>

\* lines 171-173: inserted.Add(1), then the loop's i++
RunAddInserted ==
    /\ runPc = "addIns"
    /\ inserted' = inserted + 1
    /\ i' = i + 1
    /\ runPc' = "consume"
    /\ UNCHANGED gwVars
    /\ UNCHANGED <<runRet, cancelled, concurrency, inVars, taskVars, processed, errs,
                   doneClosed, repVars, store, histVars, cancelPending>>

\* lines 161-163: the consumer's select takes the ctx.Done() branch
RunCancel ==
    /\ runPc = "consume" /\ i < total /\ cancelled
    /\ doneClosed' = TRUE
    /\ runPc' = "returned" /\ runRet' = "ctxErr"
    /\ UNCHANGED gwVars
    /\ UNCHANGED <<cancelled, concurrency, inVars, taskVars, i, processed, inserted,
                   errs, repVars, store, histVars, cancelPending>>

\* RunFinish with the loop bound off by one (i < total-1)
RunFinishEarly ==
    /\ runPc = "consume" /\ i >= total - 1
    /\ doneClosed' = TRUE
    /\ runPc' = "returned" /\ runRet' = "nil"
    /\ UNCHANGED gwVars
    /\ UNCHANGED <<cancelled, concurrency, inVars, taskVars, i, processed, inserted,
                   errs, repVars, store, histVars, cancelPending>>

\* lines 177-188: the loop has read total results
RunFinish ==
    /\ runPc = "consume" /\ i >= total
    /\ doneClosed' = TRUE
    /\ runPc' = "returned" /\ runRet' = "nil"
    /\ UNCHANGED gwVars
    /\ UNCHANGED <<cancelled, concurrency, inVars, taskVars, i, processed, inserted,
                   errs, repVars, store, histVars, cancelPending>>

\* lines 137-153: the ticker fires; the reporter loads the three counters and logs
\* the snapshot (output only: no variable of the program changes)
RepTick ==
    /\ repPc = "wait"
    /\ UNCHANGED vars

\* line 137 with line 138: the reporter's select takes ticker.C, and the reporter
\* loads processed
RepLoadP ==
    /\ repPc = "wait"
    /\ snap' = [p |-> processed, i |-> 0, e |-> 0]
    /\ repPc' = "gotP"
    /\ UNCHANGED gwVars
    /\ UNCHANGED <<runPc, runRet, cancelled, concurrency, inVars, taskVars, consVars,
                   repSaw, store, histVars, cancelPending>>

\* line 139: i := inserted.Load()
RepLoadI ==
    /\ repPc = "gotP"
    /\ snap' = [snap EXCEPT !.i = inserted]
    /\ repPc' = "gotI"
    /\ UNCHANGED gwVars
    /\ UNCHANGED <<runPc, runRet, cancelled, concurrency, inVars, taskVars, consVars,
                   repSaw, store, histVars, cancelPending>>

\* lines 140-152: e := errs.Load(), then remaining is computed and the snapshot
\* is logged
RepLoadE ==
    /\ repPc = "gotI"
    /\ snap' = [snap EXCEPT !.e = errs]
    /\ repPc' = "logged"
    /\ UNCHANGED gwVars
    /\ UNCHANGED <<runPc, runRet, cancelled, concurrency, inVars, taskVars, consVars,
                   repSaw, store, histVars, cancelPending>>

\* lines 131-132: the tick is handled, the reporter is back at its select
RepLoop ==
    /\ repPc = "logged"
    /\ snap' = NoSnap
    /\ repPc' = "wait"
    /\ UNCHANGED gwVars
    /\ UNCHANGED <<runPc, runRet, cancelled, concurrency, inVars, taskVars, consVars,
                   repSaw, store, histVars, cancelPending>>

\* RepExit that stays in the reporter's loop
RepExitGoesOn ==
    /\ repPc = "wait" /\ (cancelled \/ doneClosed)
    /\ repPc' = "wait" /\ repSaw' = TRUE
    /\ UNCHANGED gwVars
    /\ UNCHANGED <<runPc, runRet, cancelled, concurrency, inVars, taskVars, consVars,
                   snap, store, histVars, cancelPending>>

\* lines 133-136: the reporter's select takes ctx.Done() or done
RepExit ==
    /\ repPc = "wait" /\ (cancelled \/ doneClosed)
    /\ repPc' = "done" /\ repSaw' = TRUE
    /\ UNCHANGED gwVars
    /\ UNCHANGED <<runPc, runRet, cancelled, concurrency, inVars, taskVars, consVars,
                   snap, store, histVars, cancelPending>>

(***************************************************************************)
(* The gateway: one operation of the services package, a retry loop around *)
(* a paginated remote call.                                                *)
(***************************************************************************)
GwPerItemOps == {"GetPRCommentsBreakdown", "GetPRWithBackoff", "GetAllPRs"}
GwListOps == {"GetAllPRs", "GetAllPRsGraphQL"}
GwCommentOps == {"GetPRCommentsBreakdown", "GetRepoCommentsBreakdown"}
GwOps == GwPerItemOps \cup {"GetRepoCommentsBreakdown", "GetAllPRsGraphQL"}

\* time.Until(resetAt) values a rate-limit response may carry
Untils == {-3000, -1000, 0, 2000, 9000}
\* HTTP statuses of an error response that is neither rate limit nor abuse
Statuses == {404, 500, 503}

NoErr == [kind |-> "none", hasResp |-> FALSE, status |-> 0, until |-> 0,
          hasRetry |-> FALSE, retryAfter |-> 0, marked |-> FALSE]

\* the errors a remote call may return.  marked: the error text contains "502",
\* "503" or "504" (the status of the response, or digits of the request URL)
RemoteErrors ==
    {[kind |-> "ratelimit", hasResp |-> TRUE, status |-> 403, until |-> u,
      hasRetry |-> FALSE, retryAfter |-> 0, marked |-> m] : u \in Untils, m \in BOOLEAN}
    \cup
    {[kind |-> "abuse", hasResp |-> TRUE, status |-> 403, until |-> 0,
      hasRetry |-> h, retryAfter |-> IF h THEN 7000 ELSE 0, marked |-> m] :
        h \in BOOLEAN, m \in BOOLEAN}
    \cup
    {[kind |-> "http", hasResp |-> TRUE, status |-> st, until |-> 0,
      hasRetry |-> FALSE, retryAfter |-> 0, marked |-> (m \/ st \in {502, 503, 504})] :
        st \in Statuses, m \in BOOLEAN}
    \cup
    {[kind |-> "net", hasResp |-> FALSE, status |-> 0, until |-> 0,
      hasRetry |-> FALSE, retryAfter |-> 0, marked |-> m] : m \in BOOLEAN}

NoRet == [err |-> "none", cause |-> NoErr, bd |-> ZeroBreakdown]

\* the list the remote serves for the operation's current phase
Listing(op, num, ph) ==
    IF op = "GetPRCommentsBreakdown"
    THEN (IF ph = 1 THEN PerPR(IssuesOf(fx), num) ELSE PerPR(ReviewsOf(fx), num))
    ELSE IF op = "GetRepoCommentsBreakdown"
    THEN (IF ph = 1 THEN IssuesOf(fx) ELSE ReviewsOf(fx))
    ELSE IF op \in GwListOps
    THEN [k \in 1..MaxPRs |-> Comment(JobNumber(MaxPRs, k), "User")]
    ELSE << Comment(num, "User") >>

Min(a, b) == IF a < b THEN a ELSE b
PageItems(l, p) == SubSeq(l, (p - 1) * PageSize + 1, Min(p * PageSize, Len(l)))
\* resp.NextPage: 0 when there is no further page
NextPage(l, p) == IF p * PageSize < Len(l) THEN p + 1 ELSE 0

\* the two comment endpoints are read one after the other
LastPhase(op) == IF op \in GwCommentOps THEN 2 ELSE 1

\* RateLimitSleep with a floor of 5s
RateLimitSleepFloor(until) ==
    LET sleep == until + 1000 IN IF sleep < 5000 THEN 5000 ELSE sleep

\* sleepFor := time.Until(resetAt) + time.Second; if sleepFor < 0 { 5s }
RateLimitSleep(until) ==
    LET sleep == until + 1000 IN IF sleep < 0 THEN 5000 ELSE sleep

\* RetryAfter when the server sent one, else 10s
AbuseSleep(e) == IF e.hasRetry THEN e.retryAfter ELSE 10000

\* time.After(3 * time.Second)
ServerErrorSleep == 3000

\* attempt >= 6 ends the bulk scan's attempt loop
MaxAttempts == 6

\* Backoff shifting by attempt instead of attempt-1
BackoffShiftAttempt(att) ==
    LET base == 500 * (2 ^ att)
        capped == IF base > 10000 THEN 10000 ELSE base
    IN  capped + 100 * att

\* base := 500ms << (attempt-1), capped at 10s; plus 100ms * attempt
Backoff(att) ==
    LET base == 500 * (2 ^ (att - 1))
        capped == IF base > 10000 THEN 10000 ELSE base
    IN  capped + 100 * att

\* PerItemDecision without the branch for 5xx responses
PerItemDecisionNo5xx(e, att) ==
    IF e.kind = "ratelimit"
    THEN [retry |-> TRUE, sleep |-> RateLimitSleep(e.until), att |-> att]
    ELSE IF e.kind = "abuse"
    THEN [retry |-> TRUE, sleep |-> AbuseSleep(e), att |-> att]
    ELSE [retry |-> FALSE, sleep |-> 0, att |-> att]

\* PerItemDecision without the branch for abuse responses
PerItemDecisionNoAbuse(e, att) ==
    IF e.kind = "ratelimit"
    THEN [retry |-> TRUE, sleep |-> RateLimitSleep(e.until), att |-> att]
    ELSE IF e.kind # "abuse" /\ e.hasResp /\ e.status >= 500
    THEN [retry |-> TRUE, sleep |-> ServerErrorSleep, att |-> att]
    ELSE [retry |-> FALSE, sleep |-> 0, att |-> att]

\* the error branches of the per-item loops (GetAllPRs, GetPRWithBackoff,
\* GetPRCommentsBreakdown): retry after sleep, or return the error
PerItemDecision(e, att) ==
    IF e.kind = "ratelimit"
    THEN [retry |-> TRUE, sleep |-> RateLimitSleep(e.until), att |-> att]
    ELSE IF e.kind = "abuse"
    THEN [retry |-> TRUE, sleep |-> AbuseSleep(e), att |-> att]
    ELSE IF e.hasResp /\ e.status >= 500
    THEN [retry |-> TRUE, sleep |-> ServerErrorSleep, att |-> att]
    ELSE [retry |-> FALSE, sleep |-> 0, att |-> att]

\* the error branches of GetRepoCommentsBreakdown: the attempt loop classifies by
\* the error text first; what leaves it is rate limit, abuse, or anything else,
\* and every branch ends in continue (the request is rebuilt, attempt restarts)
BulkDecision(e, att) ==
    IF e.marked /\ att < MaxAttempts
    THEN [retry |-> TRUE, sleep |-> Backoff(att), att |-> att + 1]
    ELSE IF e.kind = "ratelimit"
    THEN [retry |-> TRUE, sleep |-> RateLimitSleep(e.until), att |-> 1]
    ELSE IF e.kind = "abuse"
    THEN [retry |-> TRUE, sleep |-> AbuseSleep(e), att |-> 1]
    ELSE [retry |-> TRUE, sleep |-> ServerErrorSleep, att |-> 1]

\* strings.Contains(err.Error(), "rate limit") || ... "502" || "503" || "504"
GraphQLTransient(e) == e.kind = "ratelimit" \/ e.marked

\* GraphQLDecision giving up after the sixth attempt instead of on it
GraphQLDecisionSeven(e, att) ==
    IF ~GraphQLTransient(e) \/ att > MaxAttempts
    THEN [retry |-> FALSE, sleep |-> 0, att |-> att]
    ELSE [retry |-> TRUE, sleep |-> Backoff(att), att |-> att + 1]

\* the error branch of GetAllPRsGraphQL: return the error when it is not transient
\* or on the sixth attempt, else back off and query again
GraphQLDecision(e, att) ==
    IF ~GraphQLTransient(e) \/ att >= MaxAttempts
    THEN [retry |-> FALSE, sleep |-> 0, att |-> att]
    ELSE [retry |-> TRUE, sleep |-> Backoff(att), att |-> att + 1]

Decision(op, e, att) ==
    IF op = "GetRepoCommentsBreakdown" THEN BulkDecision(e, att)
    ELSE IF op = "GetAllPRsGraphQL" THEN GraphQLDecision(e, att)
    ELSE PerItemDecision(e, att)

\* AppendNodes with the result list declared inside the page loop
AppendNodesReset(acc, items) == [k \in 1..Len(items) |-> items[k].pr]

\* allPRs = append(allPRs, pagePRs...) / results = append(results, PRLite{...})
AppendNodes(acc, items) == acc \o [k \in 1..Len(items) |-> items[k].pr]

\* AddAll counting a bot's comment as a bot comment only
AddAllSplit(bd, items) ==
    [TotalComments |-> bd.TotalComments + Len(items) - Len(BotsOf(items)),
     BotComments |-> bd.BotComments + Len(BotsOf(items))]

\* for _, c := range comments { breakdown.TotalComments++; if isBot { BotComments++ } }
AddAll(bd, items) ==
    [TotalComments |-> bd.TotalComments + Len(items),
     BotComments |-> bd.BotComments + Len(BotsOf(items))]

\* the pull request number the bulk scan derives for comment c (0: none).  Issue
\* comments: extractTrailingInt(IssueURL); diff comments: PullRequestURL, and
\* HTMLURL when that is absent or does not end in a number
DerivedId(c, ph) ==
    IF c.ref > 0 THEN c.ref
    ELSE IF ph = 2 /\ c.html > 0 THEN c.html
    ELSE 0

\* record(): count a comment for its pull request if the id is wanted
record(m, n, bot, wanted) ==
    IF n \notin wanted THEN m
    ELSE LET old == IF n \in DOMAIN m THEN m[n] ELSE ZeroBreakdown
             new == [TotalComments |-> old.TotalComments + 1,
                     BotComments |-> old.BotComments + (IF bot THEN 1 ELSE 0)]
         IN  [k \in (DOMAIN m) \cup {n} |-> IF k = n THEN new ELSE m[k]]

\* for _, c := range comments: skip a comment without user, derive its pull
\* request number, record it
RECURSIVE RecordAll(_, _, _, _)
RecordAll(m, items, wanted, ph) ==
    IF items = <<>> THEN m
    ELSE LET c == Head(items)
             n == DerivedId(c, ph)
             m2 == IF c.author = "nil" \/ n = 0 THEN m
                   ELSE record(m, n, isBot(c.author), wanted)
         IN  RecordAll(m2, Tail(items), wanted, ph)

\* what GetPRCommentsBreakdown computes for pull request id of fixture f when no
\* call fails: both endpoints, all pages
PerItemBreakdown(f, id) ==
    AddAll(AddAll(ZeroBreakdown, PerPR(IssuesOf(f), id)), PerPR(ReviewsOf(f), id))

\* what GetRepoCommentsBreakdown computes for fixture f when no call fails
BulkBreakdowns(f) ==
    RecordAll(RecordAll(EmptyMap, IssuesOf(f), Ids, 1), ReviewsOf(f), Ids, 2)

\* ErrorReturn handing back the counts accumulated so far
ErrorReturnPartial(e) == [err |-> "remote", cause |-> e, bd |-> breakdown]

\* what the operation returns with an error of its own remote call
ErrorReturn(e) == [err |-> "remote", cause |-> e, bd |-> ZeroBreakdown]

GwIdle ==
    /\ gop = "none" /\ gnum = 0 /\ fx = 1 /\ clientSet \in BOOLEAN
    /\ gwPc = "idle" /\ gwCancelled = FALSE
    /\ phase = 1 /\ page = 1 /\ attempt = 1 /\ lastAtt = 0 /\ sleepFor = 0
    /\ lastErr = NoErr
    /\ calls = 0 /\ samePage = 0
    /\ breakdown = ZeroBreakdown /\ breakdowns = EmptyMap /\ allPRs = <<>>
    /\ gwRet = NoRet

GwInit ==
    /\ gop \in GwOps
    /\ gnum \in (IF gop \in {"GetPRCommentsBreakdown", "GetPRWithBackoff"} THEN Ids ELSE {0})
    /\ fx \in (IF gop \in GwCommentOps THEN Fixtures ELSE {1})
    /\ clientSet \in BOOLEAN
    /\ gwPc = "call" /\ gwCancelled = FALSE
    /\ phase = 1 /\ page = 1 /\ attempt = 1 /\ lastAtt = 0 /\ sleepFor = 0
    /\ lastErr = NoErr
    /\ calls = 0 /\ samePage = 0
    /\ breakdown = ZeroBreakdown /\ breakdowns = EmptyMap /\ allPRs = <<>>
    /\ gwRet = NoRet

\* GwNoClient testing the client only after a first remote call
GwNoClientAfterCall ==
    /\ gwPc = "call" /\ ~clientSet
    /\ gwPc' = "ret"
    /\ calls' = calls + 1
    /\ gwRet' = [err |-> "config", cause |-> NoErr, bd |-> ZeroBreakdown]
    /\ UNCHANGED runVars
    /\ UNCHANGED <<gop, gnum, fx, clientSet, gwCancelled, phase, page, attempt, lastAtt, sleepFor,
                   lastErr, samePage, breakdown, breakdowns, allPRs>>

\* if GitHubClient == nil { return ..., errors.New("... client not initialized") }
GwNoClient ==
    /\ gwPc = "call" /\ ~clientSet
    /\ gwPc' = "ret"
    /\ gwRet' = [err |-> "config", cause |-> NoErr, bd |-> ZeroBreakdown]
    /\ UNCHANGED runVars
    /\ UNCHANGED <<gop, gnum, fx, clientSet, gwCancelled, phase, page, attempt, lastAtt, sleepFor,
                   lastErr, calls, samePage, breakdown, breakdowns, allPRs>>

\* the external cancellation signal fires while the operation runs
GwCancel ==
    /\ gwPc \in {"call", "wait"} /\ ~gwCancelled
    /\ gwCancelled' = TRUE
    /\ UNCHANGED runVars
    /\ UNCHANGED <<gop, gnum, fx, clientSet, gwPc, phase, page, attempt, lastAtt, sleepFor, lastErr,
                   calls, samePage, breakdown, breakdowns, allPRs, gwRet>>

\* the remote call succeeds: count the page, then follow resp.NextPage, move to the
\* second endpoint, or return
GwCallOk ==
    /\ gwPc = "call" /\ calls < MaxCalls /\ clientSet
    /\ LET l == Listing(gop, gnum, phase)
           items == PageItems(l, page)
           nxt == NextPage(l, page)
       IN  /\ breakdown' = IF gop = "GetPRCommentsBreakdown"
                           THEN AddAll(breakdown, items) ELSE breakdown
           /\ breakdowns' = IF gop = "GetRepoCommentsBreakdown"
                            THEN RecordAll(breakdowns, items, Ids, phase) ELSE breakdowns
           /\ allPRs' = IF gop \in GwListOps THEN AppendNodes(allPRs, items) ELSE allPRs
           /\ IF nxt # 0
              THEN /\ page' = nxt /\ phase' = phase /\ gwPc' = "call" /\ gwRet' = gwRet
              ELSE IF phase < LastPhase(gop)
              THEN /\ page' = 1 /\ phase' = phase + 1 /\ gwPc' = "call" /\ gwRet' = gwRet
              ELSE /\ page' = page /\ phase' = phase /\ gwPc' = "ret"
                   /\ gwRet' = [err |-> "nil", cause |-> NoErr, bd |-> breakdown']
    /\ lastErr' = NoErr
    /\ lastAtt' = attempt
    /\ calls' = calls + 1
    /\ samePage' = 0
    /\ attempt' = 1
    /\ sleepFor' = 0
    /\ UNCHANGED runVars
    /\ UNCHANGED <<gop, gnum, fx, clientSet, gwCancelled>>

\* the remote call fails with error e: wait and retry, or return
GwCallErr ==
    /\ gwPc = "call" /\ calls < MaxCalls /\ clientSet
    /\ \E e \in RemoteErrors :
         LET d == Decision(gop, e, attempt)
         IN  /\ lastErr' = e
             /\ IF d.retry
                THEN /\ gwPc' = "wait" /\ sleepFor' = d.sleep /\ attempt' = d.att
                     /\ gwRet' = gwRet
                ELSE /\ gwPc' = "ret" /\ sleepFor' = 0 /\ attempt' = attempt
                     /\ gwRet' = ErrorReturn(e)
    /\ lastAtt' = attempt
    /\ calls' = calls + 1
    /\ samePage' = samePage + 1
    /\ UNCHANGED runVars
    /\ UNCHANGED <<gop, gnum, fx, clientSet, gwCancelled, phase, page, breakdown, breakdowns, allPRs>>

\* GwWake with a sleep that does not watch the signal (time.Sleep)
GwWakeUncancellable ==
    /\ gwPc = "wait"
    /\ gwPc' = "call"
    /\ sleepFor' = 0
    /\ UNCHANGED runVars
    /\ UNCHANGED <<gop, gnum, fx, clientSet, gwCancelled, phase, page, attempt, lastAtt, lastErr, calls,
                   samePage, breakdown, breakdowns, allPRs, gwRet>>

\* case <-time.After(sleepFor): the wait elapses before any signal
GwWake ==
    /\ gwPc = "wait" /\ (~gwCancelled \/ sleepFor <= 0)
    /\ gwPc' = "call"
    /\ sleepFor' = 0
    /\ UNCHANGED runVars
    /\ UNCHANGED <<gop, gnum, fx, clientSet, gwCancelled, phase, page, attempt, lastAtt, lastErr, calls,
                   samePage, breakdown, breakdowns, allPRs, gwRet>>

\* case <-ctx.Done(): return ctx.Err()
GwAbort ==
    /\ gwPc = "wait" /\ gwCancelled
    /\ gwPc' = "ret"
    /\ gwRet' = [err |-> "ctx", cause |-> NoErr, bd |-> ZeroBreakdown]
    /\ UNCHANGED runVars
    /\ UNCHANGED <<gop, gnum, fx, clientSet, gwCancelled, phase, page, attempt, lastAtt, sleepFor, lastErr,
                   calls, samePage, breakdown, breakdowns, allPRs>>

GwNext ==
    \/ GwNoClient
    \/ GwCancel
    \/ GwCallOk
    \/ GwCallErr
    \/ GwWake
    \/ GwAbort

\* the Run variables while only a gateway operation is observed
RunIdle == RunInit /\ concurrency = 1 /\ poolSet = FALSE /\ nPRs = MaxPRs

GwSpecInit == GwInit /\ RunIdle

GwSpec == GwSpecInit /\ [][GwNext]_vars

Next ==
    \/ Cancel
    \/ RunList
    \/ RunBulk
    \/ RunStart
    \/ \E w \in WorkerIds : DispatchSend(w)
    \/ DispatchCancel
    \/ DispatchClose
    \/ \E w \in WorkerIds : WorkerExit(w)
    \/ \E w \in WorkerIds : WorkerLookupReturn(w)
    \/ \E w \in WorkerIds : WorkerInsertReturn(w)
    \/ \E w \in WorkerIds : ConsumeResult(w)
    \/ RunAddInserted
    \/ RunCancel
    \/ RunFinish
    \/ RepTick
    \/ RepExit

Init == RunInit /\ GwIdle

Spec == Init /\ [][Next]_vars

\* no Run is in flight
NoRun == runPc = "returned" /\ RunLocals /\ concurrency = 1 /\ nPRs = MaxPRs

\* either a Run over the gateway's results, or one gateway operation on its own
ClientInit == (RunInit /\ GwIdle) \/ (GwInit /\ NoRun /\ ~poolSet)

ClientNext == Next \/ GwNext

ClientSpec == ClientInit /\ [][ClientNext]_vars

\* ---- db.InsertPRRow on its own ----
\* pull request numbers, owners and repositories of the rows handed to the sink
RowIds == {1, 11}
Repositories == {[Owner |-> "o", Repo |-> "r"], [Owner |-> "p", Repo |-> "r"],
                 [Owner |-> "o", Repo |-> "q"]}
DbRows ==
    {[ID |-> id, Repo |-> rp.Repo, Owner |-> rp.Owner, CommentCount |-> c, BotComments |-> 0,
      LinesChanged |-> 0, CreatedAt |-> 0] : id \in RowIds, rp \in Repositories, c \in {0, 1}}

\* part_001 49-67: Pool.Exec of the INSERT ... ON CONFLICT (id) DO UPDATE; when
\* Exec fails the table is unchanged
DbInsert(row) ==
    /\ runPc = "returned" /\ poolSet
    /\ \/ store' = Upsert(store, row) /\ dbCall' = [row |-> row, err |-> "nil"]
       \/ store' = store /\ dbCall' = [row |-> row, err |-> "execErr"]
    /\ UNCHANGED gwVars
    /\ UNCHANGED <<runPc, runRet, cancelled, concurrency, poolSet, concArg, nPRs, runs, total,
                   liteMap, repoBreakdowns, bulkErr, taskVars, consVars, repVars, histVars,
                   cancelPending>>

DbNext == \E row \in DbRows : DbInsert(row)

\* a connected pool and an empty table; no Run in flight
DbInit == NoRun /\ poolSet /\ GwIdle /\ clientSet

DbSpec == DbInit /\ [][DbNext]_vars

\* ---- Run under a fair scheduler ----
\* every task that can take a step eventually takes one and every call Run or a
\* worker makes returns; the cancellation signal and the ticker are free
Fairness ==
    /\ WF_vars(RunList) /\ WF_vars(RunBulk) /\ WF_vars(RunStart)
    /\ WF_vars(\E w \in WorkerIds : DispatchSend(w))
    /\ WF_vars(DispatchCancel) /\ WF_vars(DispatchClose)
    /\ \A w \in WorkerIds :
         WF_vars(WorkerExit(w)) /\ WF_vars(WorkerLookupReturn(w)) /\ WF_vars(WorkerInsertReturn(w))
    /\ WF_vars(\E w \in WorkerIds : ConsumeResult(w))
    /\ WF_vars(RunAddInserted) /\ WF_vars(RunCancel) /\ WF_vars(RunFinish)
    /\ WF_vars(RepExit)

LiveSpec == Init /\ [][Next]_vars /\ Fairness

\* ---- the reporter's tick, one counter load at a time ----
RepNext ==
    \/ Cancel
    \/ RunList
    \/ RunBulk
    \/ RunStart
    \/ \E w \in WorkerIds : DispatchSend(w)
    \/ DispatchCancel
    \/ DispatchClose
    \/ \E w \in WorkerIds : WorkerExit(w)
    \/ \E w \in WorkerIds : WorkerLookupReturn(w)
    \/ \E w \in WorkerIds : WorkerInsertReturn(w)
    \/ \E w \in WorkerIds : ConsumeResult(w)
    \/ RunAddInserted
    \/ RunCancel
    \/ RunFinish
    \/ RepLoadP
    \/ RepLoadI
    \/ RepLoadE
    \/ RepLoop
    \/ RepExit

\* Run is entered with one or two workers, a pool and a client: the reporter
\* shares the counters with the consumer alone
RepInit == RunInit /\ GwIdle /\ concurrency \in {1, 2} /\ poolSet /\ clientSet

RepSpec == RepInit /\ [][RepNext]_vars

\* ---- Run called a second time ----
\* the tasks of the run have all ended
Quiescent ==
    /\ dispPc = "done" /\ repPc = "done"
    /\ \A w \in WorkerIds : wpc[w] \in {"off", "done"}

\* the program is run a second time: Run is entered again with the same
\* arguments, on the same repository and the same table, after a first Run that
\* processed and stored every pull request
RunAgain ==
    /\ runs = 1 /\ runPc = "returned" /\ runRet = "nil" /\ ~cancelled /\ Quiescent
    /\ poolSet /\ total = nPRs /\ total > 0 /\ errs = 0 /\ inserted = total
    /\ runs' = 2
    /\ runPc' = "list" /\ runRet' = "none"
    /\ concurrency' = concArg
    /\ total' = 0 /\ liteMap' = EmptyMap
    /\ repoBreakdowns' = EmptyMap /\ bulkErr' = FALSE
    /\ jobsClosed' = FALSE /\ closeCount' = 0
    /\ dispPc' = "off" /\ dispIdx' = 1
    /\ wpc' = [w \in WorkerIds |-> "off"]
    /\ wjob' = [w \in WorkerIds |-> 0]
    /\ wbd' = [w \in WorkerIds |-> ZeroBreakdown]
    /\ wres' = [w \in WorkerIds |-> NoResult]
    /\ i' = 0
    /\ processed' = 0 /\ inserted' = 0 /\ errs' = 0
    /\ doneClosed' = FALSE
    /\ repPc' = "off" /\ snap' = NoSnap /\ repSaw' = FALSE
    /\ got' = [id \in Ids |-> 0]
    /\ upserts' = [id \in Ids |-> 0]
    /\ lookups' = [id \in Ids |-> 0]
    /\ recvd' = [id \in Ids |-> 0]
    /\ callErr' = [id \in Ids |-> "none"]
    /\ lateUpsert' = FALSE
    /\ cancelPending' = FALSE
    /\ UNCHANGED gwVars
    /\ UNCHANGED <<cancelled, poolSet, concArg, nPRs, dbCall, store>>

TwiceNext == Next \/ RunAgain

TwiceSpec == Init /\ [][TwiceNext]_vars

(***************************************************************************)
(* Properties.                                                             *)
(***************************************************************************)
\* number of times job id has been handed to a worker
Dispatched(id) ==
    IF \E k \in 1..(dispIdx - 1) : k <= total /\ JobNumber(total, k) = id THEN 1 ELSE 0

\* C1: no result is delivered twice or for a job that was not dispatched, and a
\* Run that returns nil for N > 0 identifiers has consumed exactly N results, one
\* per dispatched identifier; without cancellation a Run that got past the
\* listing returns nothing but nil.
C1_ExactlyNResults ==
    /\ \A id \in Ids : got[id] <= Dispatched(id)
    /\ (runPc = "returned" /\ runRet = "nil" /\ total > 0) =>
          /\ NumRead = total
          /\ \A id \in Ids : got[id] = Dispatched(id)
          /\ \A id \in 1..total : got[id] = 1
    /\ (runPc = "returned" /\ ~cancelled /\ total > 0) => runRet = "nil"

C1_Witness ==
    /\ runPc = "returned" /\ runRet = "nil" /\ ~cancelled
    /\ total = MaxPRs /\ concurrency = MaxConc /\ NumRead = MaxPRs

\* C2: Run returns a non-nil error only as the listing's error (before anything
\* is started) or as the cancellation error after the signal; failed jobs are
\* counted, never returned: without cancellation Run returns nil with one
\* result consumed per job, however many jobs failed.
C2_ErrorOnlyListingOrCancel ==
    /\ runRet \in {"none", "nil", "listErr", "ctxErr"}
    /\ runRet = "listErr" => (total = 0 /\ dispPc = "off" /\ NumRead = 0)
    /\ runRet = "ctxErr" => cancelled
    /\ (runPc = "returned" /\ ~cancelled /\ runRet # "listErr") =>
          (runRet = "nil" /\ processed + errs = total /\ NumRead = total)

C2_Witness ==
    /\ runPc = "returned" /\ runRet = "nil"
    /\ total = MaxPRs /\ errs = MaxPRs /\ processed = 0

\* C3: if the signal fires while Run is consuming and a result is still unread,
\* Run returns the cancellation error, never nil.
C3_CancelPendingReturnsError ==
    (cancelPending /\ runPc = "returned") => runRet = "ctxErr"

\* C4: no InsertPRRow call starts after the cancellation signal.
C4_NoUpsertAfterCancel == ~lateUpsert

\* C5: once the signal has fired and the consumer has returned, no worker is left
\* blocked sending on the results channel (nothing receives from it any more).
C5_NoWorkerStuckSending ==
    (cancelled /\ runPc = "returned") => \A w \in WorkerIds : wpc[w] # "send"

Max(a, b) == IF a > b THEN a ELSE b

\* the latest error is a rate limit / abuse error handled by its own branch: in
\* the bulk scan the attempt loop takes an error whose text carries a 502/503/504
\* marker first, for the attempts 1..5 of a request; GetAllPRsGraphQL has no
\* such branch (its transport returns no typed error)
TypedBranch ==
    /\ gop # "GetAllPRsGraphQL"
    /\ gop \in GwPerItemOps \/ ~lastErr.marked \/ lastAtt >= MaxAttempts

\* C6 as claimed: every wait on a rate-limit response, in the loops that have a
\* rate-limit branch, is max(T - now + 1s, 5s).
C6_RateLimitWaitIsMax ==
    (gwPc = "wait" /\ lastErr.kind = "ratelimit" /\ gop # "GetAllPRsGraphQL") =>
        sleepFor = Max(lastErr.until + 1000, 5000)

\* C6 amended: a rate-limit response handled by the rate-limit branch makes the
\* loop wait T - now + 1s when that is not negative and 5s when it is negative.
C6_RateLimitWait ==
    (gwPc = "wait" /\ lastErr.kind = "ratelimit" /\ TypedBranch) =>
        sleepFor = (IF lastErr.until + 1000 >= 0 THEN lastErr.until + 1000 ELSE 5000)

C6_Witness ==
    /\ gwPc = "wait" /\ lastErr.kind = "ratelimit" /\ TypedBranch
    /\ gop = "GetRepoCommentsBreakdown"
    /\ lastErr.until = 2000 /\ sleepFor = 3000

\* what the fetch has gathered and where it stands
gwFrame == <<gop, gnum, fx, clientSet, phase, page, breakdown, breakdowns, allPRs>>

\* C7: on an abuse response every gateway loop with an abuse branch waits the server's retry-after, or
\* 10s when there is none, and then repeats the same call with nothing else changed.
C7_AbuseWait ==
    [][ /\ (gwPc = "call" /\ calls' = calls + 1 /\ lastErr'.kind = "abuse"
                /\ gop # "GetAllPRsGraphQL") =>
             /\ gwPc' = "wait"
             /\ sleepFor' = (IF lastErr'.hasRetry THEN lastErr'.retryAfter ELSE 10000)
             /\ UNCHANGED gwFrame
        /\ (gwPc = "wait" /\ lastErr.kind = "abuse" /\ gwPc' = "call") =>
             UNCHANGED gwFrame ]_vars

Is5xx(e) == e.kind = "http" /\ e.hasResp /\ e.status >= 500
IsFatal(e) == e.kind \in {"http", "net"} /\ ~(e.hasResp /\ e.status >= 500)

\* C8: in the per-item loops a 5xx response leads to a wait of exactly 3s and a
\* retry of the same call, however many retries came before; the loop ends only
\* with success, a fatal error or cancellation.
C8_ServerErrorRetry ==
    [][ /\ (gop \in GwPerItemOps /\ gwPc = "call" /\ calls' = calls + 1 /\ Is5xx(lastErr')) =>
             /\ gwPc' = "wait" /\ sleepFor' = 3000
             /\ UNCHANGED gwFrame
        /\ (gop \in GwPerItemOps /\ gwPc = "wait" /\ Is5xx(lastErr) /\ gwPc' = "call") =>
             UNCHANGED gwFrame
        /\ (gop \in GwPerItemOps /\ clientSet /\ gwPc # "ret" /\ gwPc' = "ret") =>
             \/ gwRet'.err = "nil" /\ lastErr' = NoErr
             \/ gwRet'.err = "ctx" /\ gwCancelled
             \/ gwRet'.err = "remote" /\ IsFatal(gwRet'.cause) ]_vars

\* more retries of one call than the six attempts of the capped policy
C8_Witness ==
    /\ gop \in GwPerItemOps /\ gwPc = "wait" /\ Is5xx(lastErr)
    /\ samePage > MaxAttempts /\ sleepFor = 3000

\* C9: in the per-item loops a fatal error is returned by the attempt that got
\* it, with no wait and no retry, and with the zero breakdown.
C9_FatalReturnedAtOnce ==
    (gop \in GwPerItemOps /\ IsFatal(lastErr)) =>
        /\ gwPc = "ret"
        /\ gwRet = [err |-> "remote", cause |-> lastErr, bd |-> ZeroBreakdown]
        /\ sleepFor = 0

C9_Witness ==
    /\ gop = "GetPRCommentsBreakdown" /\ IsFatal(lastErr) /\ gwPc = "ret"
    /\ breakdown.TotalComments > 0 /\ gwRet.bd = ZeroBreakdown

\* C10: a fatal error during the bulk comment scan is returned at once, without
\* a retry of the page.
C10_BulkFatalSurfaced ==
    (gop = "GetRepoCommentsBreakdown" /\ IsFatal(lastErr)) =>
        (gwPc = "ret" /\ gwRet.err = "remote")

\* C11: a backoff wait that the cancellation signal interrupts ends the operation
\* with the cancellation error: the wait is not completed and no further remote
\* call is issued, in every gateway loop.
C11_WaitsCancellable ==
    [][ (gwPc = "wait" /\ gwCancelled /\ sleepFor > 0) =>
            /\ gwPc' = "ret"
            /\ gwRet' = [err |-> "ctx", cause |-> NoErr, bd |-> ZeroBreakdown]
            /\ calls' = calls ]_vars

C11_Witness ==
    /\ gop = "GetAllPRsGraphQL" /\ gwPc = "ret" /\ gwRet.err = "ctx"
    /\ gwCancelled /\ sleepFor > 0 /\ lastAtt >= 2

\* C12 as claimed: an operation that returns an error returns a fatal error or
\* the cancellation error, never a rate-limit, abuse or 5xx error.
C12_NoTransientReturned ==
    (gwPc = "ret" /\ gwRet.err # "nil") =>
        \/ gwRet.err = "ctx" /\ gwCancelled
        \/ gwRet.err = "config" /\ ~clientSet
        \/ gwRet.err = "remote" /\ IsFatal(gwRet.cause)

\* C12 amended: the REST operations return only a fatal error or the cancellation
\* error; GetAllPRsGraphQL returns an error whose text carries a rate-limit or
\* 502/503/504 marker only from the sixth attempt of a page, and any other error
\* from the attempt that got it.
C12_TransientAbsorbed ==
    (gwPc = "ret" /\ gwRet.err # "nil") =>
        \/ gwRet.err = "ctx" /\ gwCancelled
        \/ gwRet.err = "config" /\ ~clientSet /\ calls = 0
        \/ /\ gwRet.err = "remote" /\ gop # "GetAllPRsGraphQL"
           /\ IsFatal(gwRet.cause)
        \/ /\ gwRet.err = "remote" /\ gop = "GetAllPRsGraphQL"
           /\ gwRet.cause = lastErr
           /\ GraphQLTransient(lastErr) => lastAtt = MaxAttempts
           /\ ~GraphQLTransient(lastErr) => samePage = lastAtt

\* a fatal error returned after two transient errors of the same call were absorbed
C12_Witness ==
    /\ gop \in GwPerItemOps /\ gwPc = "ret" /\ gwRet.err = "remote"
    /\ IsFatal(gwRet.cause) /\ samePage >= 3

\* C13: GetAllPRsGraphQL queries a page at most six times: an error that is not
\* transient is returned by the attempt that got it, a transient error of attempts
\* 1..5 leads to a wait and the next attempt, a transient error of attempt 6 is
\* returned, and the counter restarts at 1 after every page fetched.
C13_GraphQLAttempts ==
    gop = "GetAllPRsGraphQL" =>
        /\ attempt \in 1..MaxAttempts /\ samePage <= MaxAttempts
        /\ lastErr = NoErr => attempt = 1
        /\ lastErr # NoErr => samePage = lastAtt
        /\ (lastErr # NoErr /\ ~GraphQLTransient(lastErr)) =>
              (gwPc = "ret" /\ gwRet = [err |-> "remote", cause |-> lastErr, bd |-> ZeroBreakdown])
        /\ (GraphQLTransient(lastErr) /\ lastAtt < MaxAttempts) =>
              \/ gwPc \in {"wait", "call"} /\ attempt = lastAtt + 1
              \/ gwPc = "ret" /\ gwRet.err = "ctx"
        /\ (GraphQLTransient(lastErr) /\ lastAtt >= MaxAttempts) =>
              (gwPc = "ret" /\ gwRet = [err |-> "remote", cause |-> lastErr, bd |-> ZeroBreakdown])

\* the sixth attempt of the second page fails
C13_Witness ==
    /\ gop = "GetAllPRsGraphQL" /\ gwPc = "ret" /\ gwRet.err = "remote"
    /\ GraphQLTransient(lastErr) /\ lastAtt = MaxAttempts /\ page = 2

\* the operation is in a wait of the capped exponential backoff
InBackoff ==
    /\ gwPc = "wait"
    /\ \/ gop = "GetAllPRsGraphQL"
       \/ gop = "GetRepoCommentsBreakdown" /\ lastErr.marked /\ lastAtt < MaxAttempts

\* the waits after failed attempts 1..5
BackoffWaits == <<600, 1200, 2300, 4400, 8500>>

\* C14: the wait after failed attempt k is min(500ms * 2^(k-1), 10s) + 100ms * k,
\* longer than the wait after every earlier attempt, with an exponential part of
\* at most 10s.
C14_BackoffWait ==
    InBackoff =>
        LET k == lastAtt IN
        /\ k \in 1..(MaxAttempts - 1)
        /\ sleepFor = Min(500 * (2 ^ (k - 1)), 10000) + 100 * k
        /\ sleepFor = BackoffWaits[k]
        /\ \A j \in 1..(k - 1) : BackoffWaits[j] < sleepFor
        /\ sleepFor - 100 * k <= 10000

C14_Witness ==
    /\ InBackoff /\ gop = "GetRepoCommentsBreakdown" /\ lastAtt = 5 /\ sleepFor = 8500

\* C15: the listers return every pull request exactly once whatever failures
\* interleave with the page fetches: a failed attempt adds nothing, every page
\* is appended once, and the listing ends with the remote's last page.
C15_ListerExactlyOnce ==
    gop \in GwListOps =>
        /\ \A a, b \in 1..Len(allPRs) : a # b => allPRs[a] # allPRs[b]
        /\ gwPc # "ret" => Len(allPRs) = (page - 1) * PageSize
        /\ (gwPc = "ret" /\ gwRet.err = "nil") =>
              /\ Len(allPRs) = MaxPRs
              /\ {allPRs[k] : k \in 1..Len(allPRs)} = Ids
              /\ NextPage(Listing(gop, gnum, phase), page) = 0

C15_Witness ==
    /\ gop = "GetAllPRsGraphQL" /\ gwPc = "ret" /\ gwRet.err = "nil"
    /\ calls >= page + 3 /\ Len(allPRs) = MaxPRs

\* the comments of list l, read in phase ph, whose derived id is id
DerivedFor(l, ph, id) == LET Mine(c) == DerivedId(c, ph) = id IN SelectSeq(l, Mine)
TypedBot(l) == LET B(c) == c.author = "Bot" IN SelectSeq(l, B)

BulkDone == gop = "GetRepoCommentsBreakdown" /\ gwPc = "ret" /\ gwRet.err = "nil"
PerItemDone == gop = "GetPRCommentsBreakdown" /\ gwPc = "ret" /\ gwRet.err = "nil"

\* C16: the map a successful bulk scan returns has keys in the wanted set only, and
\* for every wanted id its total is the number of repository comments of both
\* kinds whose derived id is that id, its bot count the number of those whose
\* author type is "Bot", whatever page requests were retried.
C16_BulkMapCounts ==
    BulkDone =>
        /\ DOMAIN breakdowns \subseteq Ids
        /\ \A id \in Ids :
              LET iss == DerivedFor(IssuesOf(fx), 1, id)
                  rev == DerivedFor(ReviewsOf(fx), 2, id)
              IN  MapGet(breakdowns, id) =
                      [TotalComments |-> Len(iss) + Len(rev),
                       BotComments |-> Len(TypedBot(iss)) + Len(TypedBot(rev))]

\* C17: for every wanted pull request the breakdown read from the bulk scan's map
\* (a missing entry read as {0,0}) equals the breakdown the per-item fallback
\* returns for it, comments without author or author type included.
C17_StrategiesAgree ==
    /\ BulkDone => \A id \in Ids : MapGet(breakdowns, id) = PerItemBreakdown(fx, id)
    /\ PerItemDone => gwRet.bd = MapGet(BulkBreakdowns(fx), gnum)

BotAtMostTotal(bd) == 0 <= bd.BotComments /\ bd.BotComments <= bd.TotalComments
RowBotAtMostTotal(row) == 0 <= row.BotComments /\ row.BotComments <= row.CommentCount

\* C18: at every step of both aggregation strategies 0 <= botComments <=
\* totalComments, and so in the breakdown returned and in the row built from it.
C18_BotAtMostTotal ==
    /\ BotAtMostTotal(breakdown)
    /\ \A k \in DOMAIN breakdowns : BotAtMostTotal(breakdowns[k])
    /\ BotAtMostTotal(gwRet.bd)
    /\ PerItemDone => RowBotAtMostTotal(BuildRow(gnum, gwRet.bd))
    /\ BulkDone => \A k \in DOMAIN breakdowns : RowBotAtMostTotal(BuildRow(k, breakdowns[k]))

\* between two pages of the fallback, all comments counted so far by bots
C18_Witness ==
    /\ gop = "GetPRCommentsBreakdown" /\ gwPc = "wait" /\ page = 2
    /\ breakdown.BotComments = 1 /\ breakdown.TotalComments = 1

\* worker w receives a job in this step
Receives(w) == wpc[w] = "recv" /\ wjob'[w] # 0

\* C19: an error of the bulk scan does not end Run: the workers start with an
\* empty map, every job a worker receives goes to the per-item fallback, and Run
\* returns nil after reading all N results, or the cancellation error after the
\* signal.
C19_BulkErrorFallsBack ==
    [][ /\ (runPc = "bulk" /\ bulkErr') =>
             (runPc' = "start" /\ runRet' = "none" /\ repoBreakdowns' = EmptyMap)
        /\ bulkErr => repoBreakdowns' = EmptyMap
        /\ \A w \in WorkerIds :
             (bulkErr /\ Receives(w)) => wpc'[w] \in {"lookup", "lookupX"}
        /\ (bulkErr /\ runPc # "returned" /\ runPc' = "returned") =>
             \/ runRet' = "nil" /\ NumRead' = total
             \/ runRet' = "ctxErr" /\ cancelled ]_vars

C19_Witness ==
    /\ bulkErr /\ ~cancelled /\ runPc = "returned" /\ runRet = "nil"
    /\ total = MaxPRs /\ NumRead = MaxPRs /\ processed = MaxPRs

\* C20: a worker issues the per-item call for its job exactly when the bulk map
\* has no entry for it; with an entry it makes no remote call and the row's
\* comment counts are the entry's.  A pull request without comments has no
\* entry after a successful bulk scan, so it goes to the per-item call.
C20_FallbackIffNoEntry ==
    [][ /\ \A w \in WorkerIds : Receives(w) =>
             LET j == wjob'[w] IN
             /\ wpc'[w] \in {"lookup", "lookupX"} <=> j \notin DOMAIN repoBreakdowns
             /\ j \in DOMAIN repoBreakdowns =>
                    (wpc'[w] \in {"insert", "send"} /\ wbd'[w] = repoBreakdowns[j])
        /\ \A w \in WorkerIds :
             (wpc[w] = "insert" /\ wres'[w].inserted /\ wjob[w] \in DOMAIN repoBreakdowns) =>
             LET row == store'[RunKey(wjob[w])] IN
             /\ row.CommentCount = repoBreakdowns[wjob[w]].TotalComments
             /\ row.BotComments = repoBreakdowns[wjob[w]].BotComments ]_vars

\* after a successful bulk scan, the job of the pull request without comments
C20_Witness ==
    /\ ~bulkErr /\ total = MaxPRs /\ 1 \in DOMAIN repoBreakdowns
    /\ \E w \in WorkerIds :
         wpc[w] = "lookup" /\ wjob[w] = 2 /\ FixTotal(2) = 0

\* a worker between its receive of a job and the hand-over of that job's result
InProgress(w) == wpc[w] \in {"lookup", "lookupX", "insert", "send"}

\* C21: every dispatched job is received by exactly one worker: no job is
\* received twice and no two workers hold the same job, so at most one per-item
\* lookup and at most one upsert is issued per dispatched job.
C21_OneWorkerPerJob ==
    /\ \A id \in Ids :
         /\ recvd[id] = Dispatched(id)
         /\ recvd[id] <= 1
         /\ lookups[id] <= recvd[id]
         /\ upserts[id] <= recvd[id]
    /\ \A w1, w2 \in WorkerIds :
         (InProgress(w1) /\ InProgress(w2) /\ wjob[w1] = wjob[w2]) => w1 = w2

\* two workers served all the jobs of a full run, with a lookup and upserts issued
C21_Witness ==
    /\ concurrency = MaxConc /\ total = MaxPRs /\ runPc = "returned"
    /\ \A id \in Ids : recvd[id] = 1 /\ upserts[id] = 1
    /\ \E id \in Ids : lookups[id] = 1

\* the jobs some worker has received and not yet handed over
JobsInProgress == {wjob[w] : w \in {v \in WorkerIds : InProgress(v)}}

\* the worker tasks that have been started
Started == {w \in WorkerIds : wpc[w] # "off"}

\* C22: Run starts max(C, 1) worker tasks for every concurrency argument C, zero
\* and negative included, starts none later, and at any moment at most
\* max(C, 1) jobs are in progress.
C22_WorkerBound ==
    [][ /\ (runPc = "start" /\ runPc' = "consume") =>
             (Started = {} /\ Cardinality(Started') = Max(concArg, 1))
        /\ ~(runPc = "start" /\ runPc' = "consume") => Started' = Started
        /\ Cardinality(JobsInProgress') <= Max(concArg, 1)
        /\ SumTo(recvd', MaxPRs) - NumRead' <= Max(concArg, 1) ]_vars

\* called with a concurrency below one, Run has one worker, busy with a job
C22_Witness ==
    /\ concArg < 1 /\ Cardinality(Started) = 1 /\ Cardinality(JobsInProgress) = 1
    /\ NumRead >= 1

\* C23: in every state processed + errors is the number of results the consumer
\* has read so far and at most N, and inserted <= processed; when Run has
\* returned nil for N > 0, processed + errors = N.
C23_CounterInvariant ==
    /\ processed + errs = NumRead
    /\ processed + errs <= total
    /\ inserted <= processed
    /\ (runPc = "returned" /\ runRet = "nil" /\ total > 0) => processed + errs = total

\* a finished run that counted both failed and inserted results
C23_Witness ==
    /\ runPc = "returned" /\ runRet = "nil" /\ total = MaxPRs
    /\ errs >= 1 /\ inserted >= 1 /\ processed + errs = MaxPRs

\* the rows of the three-pull-request scenario
ScenarioRow(id, lines, tot, bot) ==
    [ID |-> id, Repo |-> Repo, Owner |-> Owner, CommentCount |-> tot, BotComments |-> bot,
     LinesChanged |-> lines, CreatedAt |-> CreatedAt(id)]
ScenarioRows == {ScenarioRow(1, 12, 2, 1), ScenarioRow(2, 0, 0, 0), ScenarioRow(3, 10, 1, 0)}

\* a run of the scenario that has ended: three pull requests, concurrency two,
\* a store, and no failed job
ScenarioEnded ==
    /\ runPc = "returned" /\ runRet = "nil" /\ ~cancelled
    /\ total = 3 /\ concArg = 2 /\ poolSet /\ errs = 0

\* C26: the scenario of three pull requests run with concurrency 2 and no
\* failures ends, in every interleaving, with exactly the three rows
\* {12,2,1}, {0,0,0}, {10,1,0} and processed = 3, inserted = 3, errors = 0.
C26_Scenario ==
    ScenarioEnded =>
        /\ processed = 3 /\ inserted = 3 /\ errs = 0
        /\ Cardinality(DOMAIN store) = 3
        /\ {store[k] : k \in DOMAIN store} = ScenarioRows

\* the scenario ended after a bulk scan that succeeded
C26_Witness == ScenarioEnded /\ ~bulkErr /\ clientSet /\ Cardinality(DOMAIN store) = 3

\* worker w's upsert succeeds in this step
InsertSucceeds(w) == wpc[w] = "insert" /\ wres'[w].inserted

\* worker w gets the breakdown for its job and builds the row in this step
BuildsRow(w) == wpc'[w] \in {"insert", "send"} /\ wpc[w] \in {"recv", "lookup"} /\ wres'[w].err = "nil"

\* C27: the row built for job j has id j, the run's owner and repo, lines changed
\* = additions + deletions of j's lite record (never negative), the lite
\* record's creation time and the comment counts of the breakdown used for j;
\* building the row changes no shared state.
C27_RowBuilt ==
    [][ /\ \A w \in WorkerIds : InsertSucceeds(w) =>
             LET j == wjob[w]
                 row == store'[RunKey(j)] IN
             /\ row.ID = j /\ row.Owner = Owner /\ row.Repo = Repo
             /\ row.LinesChanged = liteMap[j].Additions + liteMap[j].Deletions
             /\ row.LinesChanged >= 0
             /\ row.CreatedAt = liteMap[j].CreatedAt
             /\ row.CommentCount = wbd[w].TotalComments
             /\ row.BotComments = wbd[w].BotComments
        /\ \A w \in WorkerIds : BuildsRow(w) =>
             UNCHANGED <<store, liteMap, repoBreakdowns, processed, inserted, errs, total>> ]_vars

\* the row of pull request 1 was stored from a breakdown of the per-item call
C27_Witness ==
    /\ bulkErr /\ RunKey(1) \in DOMAIN store
    /\ store[RunKey(1)].LinesChanged = 12
    /\ store[RunKey(1)].CommentCount = 2
    /\ \E w \in WorkerIds : wpc[w] = "send" /\ wjob[w] = 1 /\ wres[w].inserted

\* C29: the preloaded breakdown map is written only by the bulk scan, which ends
\* before any worker is started and any job is dispatched; from the start of
\* the workers until Run returns neither it nor the lite-record map changes.
C29_MapReadOnly ==
    [][ /\ repoBreakdowns' # repoBreakdowns =>
             (runPc = "bulk" /\ Started = {} /\ dispPc = "off" /\ dispIdx = 1)
        /\ liteMap' # liteMap =>
             (runPc = "list" /\ Started = {} /\ dispPc = "off" /\ dispIdx = 1)
        /\ runPc \in {"list", "bulk"} => (Started' = {} /\ dispIdx' = 1)
        /\ Started # {} => UNCHANGED <<repoBreakdowns, liteMap>> ]_vars

\* workers are busy on the fallback while the preloaded map holds the scan's entries
C29_Witness ==
    /\ DOMAIN repoBreakdowns # {} /\ Started # {}
    /\ \E w \in WorkerIds : wpc[w] = "lookup"
    /\ \E id \in Ids : upserts[id] = 1

\* C28: a gateway operation called while its client is nil returns an error at
\* once, without a remote call or a wait; consequently a Run whose REST client
\* is nil issues the fallback call for every job it receives, records an error
\* for every result it reads (one per job when it returns nil) and performs no
\* upsert.
C28_NoClient ==
    ~clientSet =>
        /\ gop # "none" =>
             /\ calls = 0 /\ sleepFor = 0 /\ attempt = 1
             /\ gwPc \in {"call", "ret"}
             /\ gwPc = "ret" => (gwRet.err = "config" /\ gwRet.bd = ZeroBreakdown)
        /\ gop = "none" =>
             /\ DOMAIN repoBreakdowns = {}
             /\ \A id \in Ids : upserts[id] = 0 /\ lookups[id] = recvd[id]
             /\ DOMAIN store = {}
             /\ processed = 0 /\ inserted = 0 /\ errs = NumRead
             /\ (runPc = "returned" /\ runRet = "nil" /\ total > 0) => errs = total

\* with a nil client the bulk scan has returned the configuration error
C28_Witness ==
    ~clientSet /\ gop = "GetRepoCommentsBreakdown" /\ gwPc = "ret" /\ gwRet.err = "config"

\* with a nil REST client a Run over all pull requests has ended, every job an error
NoClientRunEnded ==
    /\ ~clientSet /\ gop = "none" /\ poolSet
    /\ runPc = "returned" /\ runRet = "nil" /\ total = MaxPRs /\ errs = MaxPRs

\* the id of a comment when the display URL stands in for an absent reference URL
FallbackId(c) == IF c.ref > 0 THEN c.ref ELSE IF c.html > 0 THEN c.html ELSE 0

\* the comments of l that have an author and whose id, with the fallback, is id
WithFallback(l, id) ==
    LET Mine(c) == c.author # "nil" /\ FallbackId(c) = id IN SelectSeq(l, Mine)

\* C30: in the bulk scan the id of a comment of either kind (conversation or
\* diff-review) is taken from its reference URL and, when that is absent, from
\* its display URL, so a comment without reference URL but with a usable
\* display URL is counted for its pull request.
C30_FallbackBothKinds ==
    BulkDone =>
        \A id \in Ids :
            MapGet(breakdowns, id).TotalComments =
                Len(WithFallback(IssuesOf(fx), id)) + Len(WithFallback(ReviewsOf(fx), id))

\* what the scan does: the fallback applies to diff-review comments only
BulkFallbackReviewOnly ==
    BulkDone =>
        \A id \in Ids :
            MapGet(breakdowns, id).TotalComments =
                Len(WithFallback(ReviewsOf(fx), id))
                + Len(LET Mine(c) == c.author # "nil" /\ c.ref = id IN SelectSeq(IssuesOf(fx), Mine))

\* the rows of the table
Rows == {store[k] : k \in DOMAIN store}
\* the rows of the table that belong to (owner, repo, id) of row
SameTriple(S, row) == {r \in S : r.ID = row.ID /\ r.Owner = row.Owner /\ r.Repo = row.Repo}

C24_Idempotent ==
    [][ runs' = 2 =>
            /\ store' = store
            /\ Cardinality(DOMAIN store') = nPRs
            /\ {r.ID : r \in Rows'} = 1..nPRs ]_vars

\* the second run has stored every pull request again and ended
C24_Witness ==
    /\ runs = 2 /\ runPc = "returned" /\ runRet = "nil" /\ total = MaxPRs
    /\ inserted = MaxPRs /\ concArg = MaxConc
    /\ \A id \in Ids : upserts[id] = 1

\* C32: in the bulk comment scan a page request that keeps failing with a
\* 502/503/504-marked error is attempted at most six times: after the sixth
\* failed attempt the scan does not request that page again.
C32_BulkSixAttempts ==
    (gop = "GetRepoCommentsBreakdown" /\ lastErr.kind = "http" /\ lastErr.marked
        /\ lastErr.status \in {502, 503, 504} /\ lastAtt = MaxAttempts) =>
        gwPc = "ret"

\* C31: a worker sends a failure result for job j exactly when the per-item
\* lookup or the upsert of j returned an error; after a failed lookup no upsert
\* is issued for j; a success result is sent only after the upsert of j has
\* returned successfully, or when no pool is configured.
C31_FailureIffCallFailed ==
    /\ \A id \in Ids :
         /\ callErr[id] = "lookup" => (lookups[id] = 1 /\ upserts[id] = 0)
         /\ callErr[id] = "insert" => (upserts[id] = 1 /\ RunKey(id) \notin DOMAIN store)
    /\ \A w \in WorkerIds : wpc[w] = "send" =>
         LET j == wjob[w] IN
         /\ wres[w].number = j
         /\ wres[w].err # "nil" <=> callErr[j] # "none"
         /\ wres[w].err # "nil" => ~wres[w].inserted
         /\ wres[w].err = "nil" =>
                IF poolSet
                THEN upserts[j] = 1 /\ wres[w].inserted /\ RunKey(j) \in DOMAIN store
                ELSE upserts[j] = 0 /\ ~wres[w].inserted
    /\ \A w \in WorkerIds : wpc[w] \in {"lookup", "lookupX", "insert"} =>
         (callErr[wjob[w]] = "none" /\ wres[w] = NoResult)

\* one worker is about to send the failure of an upsert, another that of a lookup
C31_Witness ==
    \E w1, w2 \in WorkerIds :
        /\ wpc[w1] = "send" /\ wres[w1].err = "insertErr"
        /\ wpc[w2] = "send" /\ wres[w2].err = "lookupErr"

\* nothing of the pipeline behind the listing has run: no bulk scan, no
\* dispatcher, worker or reporter, no lookup and no persistence call
NothingStarted ==
    /\ Started = {} /\ dispPc = "off" /\ repPc = "off"
    /\ repoBreakdowns = EmptyMap /\ ~bulkErr
    /\ ~jobsClosed /\ ~doneClosed
    /\ \A id \in Ids : upserts[id] = 0 /\ lookups[id] = 0 /\ recvd[id] = 0
    /\ DOMAIN store = {}

\* C33: if the bulk listing returns an error, Run returns that error from the
\* listing step and never starts the bulk comment scan, the dispatcher, a
\* worker or the reporter, and issues no persistence call.
C33_ListErrorReturned ==
    runRet = "listErr" => (runPc = "returned" /\ total = 0 /\ NothingStarted)

\* Run has returned the listing's error, with a pool and a client configured
C33_Witness ==
    runPc = "returned" /\ runRet = "listErr" /\ poolSet /\ clientSet /\ nPRs = MaxPRs

\* C38: when the listing returns zero pull requests Run returns nil at once,
\* from the listing step: no bulk comment scan, no dispatcher, worker or
\* reporter, no persistence call.
C38_EmptyListingReturnsNil ==
    /\ (nPRs = 0 /\ runPc # "list") =>
         (runPc = "returned" /\ runRet \in {"nil", "listErr"})
    /\ (runPc = "returned" /\ runRet = "nil" /\ total = 0) => NothingStarted

\* Run has returned nil for a repository without pull requests
C38_Witness ==
    runPc = "returned" /\ runRet = "nil" /\ nPRs = 0 /\ total = 0 /\ poolSet /\ clientSet

\* C34: the dispatcher sends the identifiers in listing order, each at most
\* once, and closes the job queue once: after the last send or on observing
\* cancellation, and then it has ended; nothing is sent on the closed queue.
C34_DispatchOrderAndClose ==
    [][ /\ dispIdx' # dispIdx =>
             /\ dispIdx' = dispIdx + 1 /\ dispIdx <= total
             /\ ~jobsClosed /\ ~jobsClosed'
             /\ \E w \in WorkerIds :
                    /\ wpc[w] = "recv" /\ wjob'[w] = JobNumber(total, dispIdx)
                    /\ liteMap[wjob'[w]].Number = wjob'[w]
             /\ recvd'[JobNumber(total, dispIdx)] = 1
        /\ recvd' # recvd => dispIdx' # dispIdx
        /\ jobsClosed' # jobsClosed =>
             /\ jobsClosed' /\ closeCount = 0 /\ closeCount' = 1
             /\ dispPc = "run" /\ dispPc' = "done"
             /\ dispIdx > total \/ cancelled
        /\ closeCount' <= 1
        /\ dispPc' = "done" => (jobsClosed' /\ closeCount' = 1) ]_vars

\* the queue was closed on cancellation after the first job had been sent
C34_Witness ==
    /\ cancelled /\ dispPc = "done" /\ jobsClosed /\ closeCount = 1
    /\ dispIdx = 2 /\ total = MaxPRs /\ recvd[MaxPRs] = 1

\* the dispatcher, the workers and the reporter have ended or were never started
TasksEnded ==
    /\ dispPc \in {"off", "done"} /\ repPc \in {"off", "done"}
    /\ \A w \in WorkerIds : wpc[w] \in {"off", "done"}

\* once the bulk scan has returned, a Run that is not cancelled returns nil (or
\* the listing's error) and all its tasks end
RunTerminates ==
    <>(cancelled \/ (runPc = "returned" /\ runRet \in {"nil", "listErr"} /\ TasksEnded))

\* C35: with no cancellation and every remote and persistence call returning
\* success or a fatal error, Run returns nil and all its tasks end.  Run calls
\* the bulk comment scan before it starts its tasks, so the scan has to return:
\* with calls that return success or a fatal error it issues no call after one
\* that returned a fatal error.
C35_ScanEndsOnFatal ==
    [][ (gop = "GetRepoCommentsBreakdown" /\ ~gwCancelled /\ IsFatal(lastErr)) =>
            calls' = calls ]_vars

\* the jobs whose InsertPRRow call returned nil
UpsertOk == {id \in Ids : upserts[id] >= 1 /\ callErr[id] # "insert" /\ id \notin JobsInProgress}
\* the jobs of the run whose per-item lookup did not fail
NoLookupErr == {id \in 1..total : callErr[id] # "lookup"}

\* C37: when Run has returned nil, inserted is the number of jobs whose upsert
\* returned success, and it equals processed when a pool is configured; without
\* a pool every job without a lookup error is counted as processed, inserted is
\* 0 and no upsert was issued.
C37_InsertedCountsUpserts ==
    (runPc = "returned" /\ runRet = "nil") =>
        /\ inserted = Cardinality(UpsertOk)
        /\ poolSet => inserted = processed
        /\ ~poolSet =>
              /\ processed = Cardinality(NoLookupErr)
              /\ inserted = 0
              /\ \A id \in Ids : upserts[id] = 0

\* a run with a pool that returned nil after an upsert failed and another
\* succeeded
C37_Witness ==
    /\ runPc = "returned" /\ runRet = "nil" /\ poolSet
    /\ inserted >= 1 /\ \E id \in Ids : callErr[id] = "insert"

\* a run without a pool that returned nil having counted a job as processed
\* and another as failed
RunNoPoolEnded ==
    /\ runPc = "returned" /\ runRet = "nil" /\ ~poolSet
    /\ processed >= 1 /\ errs >= 1

\* C36: every snapshot the reporter logs satisfies inserted <= processed and
\* processed + errors <= total, however its three loads interleave with the
\* consumer's updates.
C36_SnapshotConsistent ==
    repPc = "logged" => (snap.i <= snap.p /\ snap.p + snap.e <= total)

\* the second half of C36 alone: a logged snapshot has processed + errors <= total
SnapshotWithinTotal ==
    repPc = "logged" => snap.p + snap.e <= total

\* remaining as line 141 computes it, before the clamp of lines 142-144
Remaining == total - snap.p - snap.e

\* C39: total - processed - errors is never negative, neither for the counters
\* nor for the values the reporter has loaded, so the clamp of remaining to 0
\* never takes effect; and once the reporter's select has taken the end-of-run
\* or cancellation branch the reporter has ended: it loads and logs nothing more.
C39_RemainingNeverNegative ==
    /\ total - processed - errs >= 0
    /\ repPc = "logged" => Remaining >= 0
    /\ repSaw => (repPc = "done" /\ snap = NoSnap)

\* the reporter has logged remaining = 0 for a run of MaxPRs jobs with a failed
\* one, in a tick its select took while the end-of-run or cancellation signal
\* was already raised
C39_Witness ==
    /\ repPc = "logged" /\ Remaining = 0 /\ total = MaxPRs /\ snap.e >= 1
    /\ (doneClosed \/ cancelled)

\* the reporter has ended on the signal
ReporterEnded == repSaw /\ repPc = "done" /\ runPc = "returned"

====
